---- MODULE Spec2Model ----
(***************************************************************************)
(* The Rendezvous of src/src/lib.rs: one heap allocation RDVInner holding  *)
(* two AtomicU32 counters, live and alloc_dep (the spec's "pending"), and  *)
(* any number of handles pointing at it.  Every atomic operation of new,   *)
(* clone, wait and drop is one action; the handles' owners interleave      *)
(* freely.  The atomics are modelled as sequentially consistent.           *)
(***************************************************************************)
EXTENDS Naturals, Sequences, FiniteSets

(* Number of handle slots followed individually (new's handle is slot 1). *)
MaxHandles == 3
(* CapInit starts groups holding U32Max - k handles, k in 0..CapSlack. *)
CapSlack == 2
(* Number of Debug::fmt calls followed. *)
MaxFmt == 1

(***************************************************************************)
(* AtomicU32 values.  A u32 is kept exactly, as two 16-bit limbs           *)
(* <<high, low>>, so that u32::MAX and wrap-around are the real ones.      *)
(***************************************************************************)
Limb == 65536

U32(n) == <<0, n>>
U32Zero == <<0, 0>>
U32Max == <<Limb - 1, Limb - 1>>
None == <<>>

U32Lt(a, b) == a[1] < b[1] \/ (a[1] = b[1] /\ a[2] < b[2])
U32Le(a, b) == a = b \/ U32Lt(a, b)

(* fetch_add(1) / fetch_sub(1) on an AtomicU32 wrap around. *)
WrappingAdd1(a) ==
    IF a[2] = Limb - 1
    THEN (IF a[1] = Limb - 1 THEN U32Zero ELSE <<a[1] + 1, 0>>)
    ELSE <<a[1], a[2] + 1>>
WrappingSub1(a) ==
    IF a[2] = 0
    THEN (IF a[1] = 0 THEN U32Max ELSE <<a[1] - 1, Limb - 1>>)
    ELSE <<a[1], a[2] - 1>>

RECURSIVE U32SubN(_, _)
U32SubN(a, k) == IF k = 0 THEN a ELSE U32SubN(WrappingSub1(a), k - 1)

(* u32::checked_add(1): None on overflow. *)
CheckedAdd1Wraps(n) == WrappingAdd1(n)
CheckedAdd1(n) == IF n = U32Max THEN None ELSE WrappingAdd1(n)

(***************************************************************************)
(* State.                                                                  *)
(***************************************************************************)
VARIABLES
    live,       \* RDVInner.live
    alloc_dep,  \* RDVInner.alloc_dep
    pc,         \* per handle slot: where its owner (or its creating clone) is
    l,          \* per handle slot: wait's local l
    src,        \* per handle slot: the handle a running clone borrows (0: none)
    others,     \* handles of the group held by owners that are not followed
    freed,      \* the handles that ran Box::from_raw on the allocation, in order
    zeroBy,     \* the handles whose fetch_sub on live produced 0
    wakers,     \* the handles that called wake_all, in order
    uaf,        \* some step dereferenced the pointer after the free
    decs,       \* per handle slot: its fetch_sub calls on <<live, alloc_dep>> so far
    dbg         \* Debug::fmt: the call in progress and the pair last reported

vars == <<live, alloc_dep, pc, l, src, others, freed, zeroBy, wakers, uaf,
          decs, dbg>>

Handles == 1 .. MaxHandles

WaitPcs == {"w_wake", "w_park", "w_parked", "w_load", "w_dep", "w_free"}
DropPcs == {"d_wake", "d_dep", "d_free"}

(* The allocation is valid until Box::from_raw drops it. *)
Allocated == freed = <<>>

(* Debug::fmt: no call yet. *)
NoFmt ==
    [at |-> "idle", h |-> 0, live |-> U32Zero, alloc_dep |-> U32Zero, calls |-> 0]

(* The handle's count of fetch_sub calls on live, resp. alloc_dep, grows. *)
CountLive(h) == [decs EXCEPT ![h][1] = IF @ < 2 THEN @ + 1 ELSE @]
CountDep(h) == [decs EXCEPT ![h][2] = IF @ < 2 THEN @ + 1 ELSE @]

(* A handle is borrowed while a clone or a fmt of it is running. *)
Borrowed(h) ==
    \/ \E n \in Handles : src[n] = h
    \/ (dbg.at = "live_read" /\ dbg.h = h)

(* The next unused slot receives the handle a clone creates. *)
FreshSlot(n) == pc[n] = "none" /\ \A m \in Handles : m < n => pc[m] # "none"

(* As new with alloc_dep starting at 0, as if it counted only the *)
(* retirements in progress.                                       *)
new_alloc_dep_zero ==
    /\ live = U32(1)
    /\ alloc_dep = U32Zero
    /\ others = U32Zero
    /\ pc = [h \in Handles |-> IF h = 1 THEN "held" ELSE "none"]
    /\ l = [h \in Handles |-> U32Zero]
    /\ src = [h \in Handles |-> 0]
    /\ freed = <<>>
    /\ zeroBy = {}
    /\ wakers = <<>>
    /\ uaf = FALSE
    /\ decs = [h \in Handles |-> <<0, 0>>]
    /\ dbg = NoFmt

(* Rendezvous::new: live = 1, alloc_dep = 1, one handle. *)
new ==
    /\ live = U32(1)
    /\ alloc_dep = U32(1)
    /\ others = U32Zero
    /\ pc = [h \in Handles |-> IF h = 1 THEN "held" ELSE "none"]
    /\ l = [h \in Handles |-> U32Zero]
    /\ src = [h \in Handles |-> 0]
    /\ freed = <<>>
    /\ zeroBy = {}
    /\ wakers = <<>>
    /\ uaf = FALSE
    /\ decs = [h \in Handles |-> <<0, 0>>]
    /\ dbg = NoFmt

Init == new

(* A group that already holds n handles, n within CapSlack of u32::MAX: *)
(* slot 1 is one of them, the others stay with their owners.            *)
CapInit ==
    \/ new
    \/ \E k \in 0 .. CapSlack :
        /\ live = U32SubN(U32Max, k)
        /\ alloc_dep = U32SubN(U32Max, k)
        /\ others = U32SubN(U32Max, k + 1)
        /\ pc = [h \in Handles |-> IF h = 1 THEN "held" ELSE "none"]
        /\ l = [h \in Handles |-> U32Zero]
        /\ src = [h \in Handles |-> 0]
        /\ freed = <<>>
        /\ zeroBy = {}
        /\ wakers = <<>>
        /\ uaf = FALSE
        /\ decs = [h \in Handles |-> <<0, 0>>]
        /\ dbg = NoFmt

(* A dereference of the pointer after the free is undefined behaviour: *)
(* it is recorded and the thread is not followed any further.          *)
UseAfterFree(h) ==
    /\ uaf' = TRUE
    /\ pc' = [pc EXCEPT ![h] = "ub"]
    /\ UNCHANGED <<live, alloc_dep, l, src, others, freed, zeroBy, wakers,
                   decs, dbg>>

(* As WakeAll, but a wake of one blocked thread only. *)
WakeOne(p) ==
    [h \in Handles |->
        IF p[h] = "w_parked" /\ \A g \in Handles : g < h => p[g] # "w_parked"
        THEN "w_load" ELSE p[h]]

(* atomic_wait::wake_all: every thread blocked on live resumes. *)
WakeAll(p) == [h \in Handles |-> IF p[h] = "w_parked" THEN "w_load" ELSE p[h]]

(* As ParkBlocks with the comparison inverted. *)
ParkBlocksOnMismatch(cur, expected) == cur # expected
(* atomic_wait::wait(a, expected) blocks only if the value is still expected. *)
ParkBlocksAlways(cur, expected) == TRUE
ParkBlocks(cur, expected) == cur = expected

(* forget(self) at the top of wait: when wait returns the handle is gone *)
(* and no destructor runs for it.                                        *)
AfterWaitStillOwned == "held"
AfterWait == "w_done"

(* The fetch_sub on alloc_dep returned 1: this was the last dependent. *)
LastAllocDepAny(prev) == TRUE
LastAllocDep(prev) == prev = U32(1)

(***************************************************************************)
(* Clone::clone(&self).                                                    *)
(***************************************************************************)
(* As clone_alloc_dep with the checked increment applied to live, the *)
(* wrong field.                                                       *)
clone_counts_live(s, n) ==
    /\ pc[s] = "held"
    /\ FreshSlot(n)
    /\ IF ~Allocated
       THEN UseAfterFree(n)
       ELSE LET r == CheckedAdd1(live) IN
            IF r = None
            THEN /\ pc' = [pc EXCEPT ![n] = "c_panicked"]
                 /\ UNCHANGED <<live, alloc_dep, l, src, others, freed, zeroBy,
                                wakers, uaf, decs, dbg>>
            ELSE /\ live' = r
                 /\ pc' = [pc EXCEPT ![n] = "c_live"]
                 /\ src' = [src EXCEPT ![n] = s]
                 /\ UNCHANGED <<alloc_dep, l, others, freed, zeroBy, wakers, uaf,
                                decs, dbg>>

(* As clone_alloc_dep with live incremented before the capacity check, *)
(* so that a failed clone has already counted itself live.             *)
clone_live_before_check(s, n) ==
    /\ pc[s] = "held"
    /\ FreshSlot(n)
    /\ IF ~Allocated
       THEN UseAfterFree(n)
       ELSE LET r == CheckedAdd1(alloc_dep) IN
            IF r = None
            THEN /\ live' = WrappingAdd1(live)
                 /\ pc' = [pc EXCEPT ![n] = "c_panicked"]
                 /\ UNCHANGED <<alloc_dep, l, src, others, freed, zeroBy,
                                wakers, uaf, decs, dbg>>
            ELSE /\ alloc_dep' = r
                 /\ pc' = [pc EXCEPT ![n] = "c_live"]
                 /\ src' = [src EXCEPT ![n] = s]
                 /\ UNCHANGED <<live, l, others, freed, zeroBy, wakers, uaf,
                                decs, dbg>>

(* alloc_dep.fetch_update(|n| n.checked_add(1)).expect(..): the checked    *)
(* increment, or a panic that leaves the counter as it was.                *)
clone_alloc_dep(s, n) ==
    /\ pc[s] = "held"
    /\ FreshSlot(n)
    /\ IF ~Allocated
       THEN UseAfterFree(n)
       ELSE LET r == CheckedAdd1(alloc_dep) IN
            IF r = None
            THEN /\ pc' = [pc EXCEPT ![n] = "c_panicked"]
                 /\ UNCHANGED <<live, alloc_dep, l, src, others, freed, zeroBy,
                                wakers, uaf, decs, dbg>>
            ELSE /\ alloc_dep' = r
                 /\ pc' = [pc EXCEPT ![n] = "c_live"]
                 /\ src' = [src EXCEPT ![n] = s]
                 /\ UNCHANGED <<live, l, others, freed, zeroBy, wakers, uaf,
                                decs, dbg>>

(* As clone_live without the fetch_add: the new handle is returned *)
(* uncounted in live.                                              *)
clone_live_skipped(n) ==
    /\ pc[n] = "c_live"
    /\ IF ~Allocated
       THEN UseAfterFree(n)
       ELSE /\ pc' = [pc EXCEPT ![n] = "held"]
            /\ src' = [src EXCEPT ![n] = 0]
            /\ UNCHANGED <<live, alloc_dep, l, others, freed, zeroBy, wakers, uaf,
                           decs, dbg>>

(* live.fetch_add(1), then the new handle is returned. *)
clone_live(n) ==
    /\ pc[n] = "c_live"
    /\ IF ~Allocated
       THEN UseAfterFree(n)
       ELSE /\ live' = WrappingAdd1(live)
            /\ pc' = [pc EXCEPT ![n] = "held"]
            /\ src' = [src EXCEPT ![n] = 0]
            /\ UNCHANGED <<alloc_dep, l, others, freed, zeroBy, wakers, uaf,
                           decs, dbg>>

(***************************************************************************)
(* Rendezvous::wait(self).                                                 *)
(***************************************************************************)
(* As wait_live_fetch_sub without the `if l == 0` test: wake_all is called *)
(* after every decrement.                                                 *)
wait_live_fetch_sub_wakes_always(h) ==
    /\ pc[h] = "held"
    /\ ~Borrowed(h)
    /\ IF ~Allocated
       THEN UseAfterFree(h)
       ELSE LET new_l == WrappingSub1(live) IN
            /\ live' = new_l
            /\ l' = [l EXCEPT ![h] = new_l]
            /\ pc' = [pc EXCEPT ![h] = "w_wake"]
            /\ zeroBy' = IF new_l = U32Zero THEN zeroBy \cup {h} ELSE zeroBy
            /\ decs' = CountLive(h)
            /\ UNCHANGED <<alloc_dep, src, others, freed, wakers, uaf, dbg>>

(* As wait_live_fetch_sub with l = live.fetch_sub(1), the value before the *)
(* decrement: the `- 1` is missing.                                       *)
wait_live_fetch_sub_previous_value(h) ==
    /\ pc[h] = "held"
    /\ ~Borrowed(h)
    /\ IF ~Allocated
       THEN UseAfterFree(h)
       ELSE /\ live' = WrappingSub1(live)
            /\ l' = [l EXCEPT ![h] = live]
            /\ pc' = [pc EXCEPT ![h] = IF live = U32Zero THEN "w_wake" ELSE "w_park"]
            /\ zeroBy' = IF WrappingSub1(live) = U32Zero THEN zeroBy \cup {h} ELSE zeroBy
            /\ decs' = CountLive(h)
            /\ UNCHANGED <<alloc_dep, src, others, freed, wakers, uaf, dbg>>

(* forget(self); l = live.fetch_sub(1) - 1; then `if l == 0` / `while l > 0`. *)
wait_live_fetch_sub(h) ==
    /\ pc[h] = "held"
    /\ ~Borrowed(h)
    /\ IF ~Allocated
       THEN UseAfterFree(h)
       ELSE LET new_l == WrappingSub1(live) IN
            /\ live' = new_l
            /\ l' = [l EXCEPT ![h] = new_l]
            /\ pc' = [pc EXCEPT ![h] = IF new_l = U32Zero THEN "w_wake" ELSE "w_park"]
            /\ zeroBy' = IF new_l = U32Zero THEN zeroBy \cup {h} ELSE zeroBy
            /\ decs' = CountLive(h)
            /\ UNCHANGED <<alloc_dep, src, others, freed, wakers, uaf, dbg>>

(* atomic_wait::wake_all(&inner.live) when l == 0; the while loop is skipped. *)
wait_wake_all(h) ==
    /\ pc[h] = "w_wake"
    /\ IF ~Allocated
       THEN UseAfterFree(h)
       ELSE /\ pc' = [WakeAll(pc) EXCEPT ![h] = "w_dep"]
            /\ wakers' = Append(wakers, h)
            /\ UNCHANGED <<live, alloc_dep, l, src, others, freed, zeroBy, uaf,
                           decs, dbg>>

(* atomic_wait::wait(&inner.live, l): compare and block, or return at once. *)
wait_park(h) ==
    /\ pc[h] = "w_park"
    /\ IF ~Allocated
       THEN UseAfterFree(h)
       ELSE /\ pc' = [pc EXCEPT ![h] = IF ParkBlocks(live, l[h])
                                       THEN "w_parked" ELSE "w_load"]
            /\ UNCHANGED <<live, alloc_dep, l, src, others, freed, zeroBy,
                           wakers, uaf, decs, dbg>>

(* atomic_wait::wait may return spuriously. *)
wait_spurious_wakeup(h) ==
    /\ pc[h] = "w_parked"
    /\ pc' = [pc EXCEPT ![h] = "w_load"]
    /\ UNCHANGED <<live, alloc_dep, l, src, others, freed, zeroBy, wakers, uaf,
                   decs, dbg>>

(* As wait_live_load with `if` in place of `while`: no re-check. *)
wait_live_load_once(h) ==
    /\ pc[h] = "w_load"
    /\ IF ~Allocated
       THEN UseAfterFree(h)
       ELSE /\ l' = [l EXCEPT ![h] = live]
            /\ pc' = [pc EXCEPT ![h] = "w_dep"]
            /\ UNCHANGED <<live, alloc_dep, src, others, freed, zeroBy, wakers, uaf,
                           decs, dbg>>

(* l = inner.live.load(); the loop goes on while l > 0. *)
wait_live_load(h) ==
    /\ pc[h] = "w_load"
    /\ IF ~Allocated
       THEN UseAfterFree(h)
       ELSE /\ l' = [l EXCEPT ![h] = live]
            /\ pc' = [pc EXCEPT ![h] = IF U32Lt(U32Zero, live) THEN "w_park" ELSE "w_dep"]
            /\ UNCHANGED <<live, alloc_dep, src, others, freed, zeroBy, wakers, uaf,
                           decs, dbg>>

(* alloc_dep.fetch_sub(1) == 1 decides who frees. *)
wait_alloc_dep_fetch_sub(h) ==
    /\ pc[h] = "w_dep"
    /\ IF ~Allocated
       THEN UseAfterFree(h)
       ELSE /\ alloc_dep' = WrappingSub1(alloc_dep)
            /\ pc' = [pc EXCEPT ![h] = IF LastAllocDep(alloc_dep)
                                       THEN "w_free" ELSE AfterWait]
            /\ decs' = CountDep(h)
            /\ UNCHANGED <<live, l, src, others, freed, zeroBy, wakers, uaf, dbg>>

(* Box::from_raw(ptr.as_ptr()), dropped at once: the deallocation. *)
wait_free(h) ==
    /\ pc[h] = "w_free"
    /\ freed' = Append(freed, h)
    /\ pc' = [pc EXCEPT ![h] = AfterWait]
    /\ UNCHANGED <<live, alloc_dep, l, src, others, zeroBy, wakers, uaf,
                   decs, dbg>>

(***************************************************************************)
(* Drop::drop(&mut self).                                                  *)
(***************************************************************************)
(* As drop_live_fetch_sub with live as the only counter: the thread that *)
(* takes live to 0 frees.                                                *)
drop_live_fetch_sub_frees(h) ==
    /\ pc[h] = "held"
    /\ ~Borrowed(h)
    /\ IF ~Allocated
       THEN UseAfterFree(h)
       ELSE /\ live' = WrappingSub1(live)
            /\ pc' = [pc EXCEPT ![h] = IF live = U32(1) THEN "d_free" ELSE "d_done"]
            /\ zeroBy' = IF WrappingSub1(live) = U32Zero THEN zeroBy \cup {h} ELSE zeroBy
            /\ decs' = CountLive(h)
            /\ UNCHANGED <<alloc_dep, l, src, others, freed, wakers, uaf, dbg>>

(* As drop_live_fetch_sub, but a drop that leaves live above 0 returns at *)
(* once, without its decrement of alloc_dep.                              *)
drop_live_fetch_sub_returns_early(h) ==
    /\ pc[h] = "held"
    /\ ~Borrowed(h)
    /\ IF ~Allocated
       THEN UseAfterFree(h)
       ELSE /\ live' = WrappingSub1(live)
            /\ pc' = [pc EXCEPT ![h] = IF live = U32(1) THEN "d_wake" ELSE "d_done"]
            /\ zeroBy' = IF WrappingSub1(live) = U32Zero THEN zeroBy \cup {h} ELSE zeroBy
            /\ decs' = CountLive(h)
            /\ UNCHANGED <<alloc_dep, l, src, others, freed, wakers, uaf, dbg>>

(* As drop_live_fetch_sub without the `== 1` test: wake_all after every *)
(* decrement.                                                          *)
drop_live_fetch_sub_wakes_always(h) ==
    /\ pc[h] = "held"
    /\ ~Borrowed(h)
    /\ IF ~Allocated
       THEN UseAfterFree(h)
       ELSE /\ live' = WrappingSub1(live)
            /\ pc' = [pc EXCEPT ![h] = "d_wake"]
            /\ zeroBy' = IF WrappingSub1(live) = U32Zero THEN zeroBy \cup {h} ELSE zeroBy
            /\ decs' = CountLive(h)
            /\ UNCHANGED <<alloc_dep, l, src, others, freed, wakers, uaf, dbg>>

(* As drop_live_fetch_sub with the first decrement applied to alloc_dep, *)
(* the wrong field: live keeps counting the dropped handle.             *)
drop_live_fetch_sub_wrong_field(h) ==
    /\ pc[h] = "held"
    /\ ~Borrowed(h)
    /\ IF ~Allocated
       THEN UseAfterFree(h)
       ELSE /\ alloc_dep' = WrappingSub1(alloc_dep)
            /\ pc' = [pc EXCEPT ![h] = IF alloc_dep = U32(1) THEN "d_wake" ELSE "d_dep"]
            /\ decs' = CountDep(h)
            /\ UNCHANGED <<live, l, src, others, freed, zeroBy, wakers, uaf, dbg>>

(* inner.live.fetch_sub(1) == 1 decides whether to wake. *)
drop_live_fetch_sub(h) ==
    /\ pc[h] = "held"
    /\ ~Borrowed(h)
    /\ IF ~Allocated
       THEN UseAfterFree(h)
       ELSE /\ live' = WrappingSub1(live)
            /\ pc' = [pc EXCEPT ![h] = IF live = U32(1) THEN "d_wake" ELSE "d_dep"]
            /\ zeroBy' = IF WrappingSub1(live) = U32Zero THEN zeroBy \cup {h} ELSE zeroBy
            /\ decs' = CountLive(h)
            /\ UNCHANGED <<alloc_dep, l, src, others, freed, wakers, uaf, dbg>>

(* atomic_wait::wake_all(&inner.live). *)
drop_wake_all(h) ==
    /\ pc[h] = "d_wake"
    /\ IF ~Allocated
       THEN UseAfterFree(h)
       ELSE /\ pc' = [WakeAll(pc) EXCEPT ![h] = "d_dep"]
            /\ wakers' = Append(wakers, h)
            /\ UNCHANGED <<live, alloc_dep, l, src, others, freed, zeroBy, uaf,
                           decs, dbg>>

(* As drop_alloc_dep_fetch_sub, but the free is decided on live being 0, *)
(* the wrong counter.                                                   *)
drop_alloc_dep_fetch_sub_tests_live(h) ==
    /\ pc[h] = "d_dep"
    /\ IF ~Allocated
       THEN UseAfterFree(h)
       ELSE /\ alloc_dep' = WrappingSub1(alloc_dep)
            /\ pc' = [pc EXCEPT ![h] = IF live = U32Zero THEN "d_free" ELSE "d_done"]
            /\ decs' = CountDep(h)
            /\ UNCHANGED <<live, l, src, others, freed, zeroBy, wakers, uaf, dbg>>

(* alloc_dep.fetch_sub(1) == 1 decides who frees. *)
drop_alloc_dep_fetch_sub(h) ==
    /\ pc[h] = "d_dep"
    /\ IF ~Allocated
       THEN UseAfterFree(h)
       ELSE /\ alloc_dep' = WrappingSub1(alloc_dep)
            /\ pc' = [pc EXCEPT ![h] = IF LastAllocDep(alloc_dep)
                                       THEN "d_free" ELSE "d_done"]
            /\ decs' = CountDep(h)
            /\ UNCHANGED <<live, l, src, others, freed, zeroBy, wakers, uaf, dbg>>

(* Box::from_raw(self.ptr.as_ptr()), dropped at once: the deallocation. *)
drop_free(h) ==
    /\ pc[h] = "d_free"
    /\ freed' = Append(freed, h)
    /\ pc' = [pc EXCEPT ![h] = "d_done"]
    /\ UNCHANGED <<live, alloc_dep, l, src, others, zeroBy, wakers, uaf,
                   decs, dbg>>

(***************************************************************************)
(* Debug::fmt(&self).                                                      *)
(***************************************************************************)
(* .field("live barriers", &inner.live.load(Acquire)): the first load. *)
fmt_live_load(h) ==
    /\ pc[h] = "held"
    /\ dbg.at # "live_read"
    /\ dbg.calls < MaxFmt
    /\ IF ~Allocated
       THEN UseAfterFree(h)
       ELSE /\ dbg' = [at |-> "live_read", h |-> h, live |-> live,
                       alloc_dep |-> U32Zero, calls |-> dbg.calls + 1]
            /\ UNCHANGED <<live, alloc_dep, pc, l, src, others, freed, zeroBy,
                           wakers, uaf, decs>>

(* As fmt_alloc_dep_load, but reading live a second time. *)
fmt_alloc_dep_load_reads_live(h) ==
    /\ dbg.at = "live_read"
    /\ dbg.h = h
    /\ IF ~Allocated
       THEN UseAfterFree(h)
       ELSE /\ dbg' = [dbg EXCEPT !.at = "reported", !.h = 0, !.alloc_dep = live]
            /\ UNCHANGED <<live, alloc_dep, pc, l, src, others, freed, zeroBy,
                           wakers, uaf, decs>>

(* .field("total allocations ..", &inner.alloc_dep.load(Acquire)).finish(): *)
(* the second load, and the pair is reported.                               *)
fmt_alloc_dep_load(h) ==
    /\ dbg.at = "live_read"
    /\ dbg.h = h
    /\ IF ~Allocated
       THEN UseAfterFree(h)
       ELSE /\ dbg' = [dbg EXCEPT !.at = "reported", !.h = 0,
                                  !.alloc_dep = alloc_dep]
            /\ UNCHANGED <<live, alloc_dep, pc, l, src, others, freed, zeroBy,
                           wakers, uaf, decs>>

(***************************************************************************)
(* Specifications.                                                         *)
(***************************************************************************)
Clone == \E s, n \in Handles : clone_alloc_dep(s, n)
CloneLive == \E n \in Handles : clone_live(n)
WaitBegin == \E h \in Handles : wait_live_fetch_sub(h)
WaitWake == \E h \in Handles : wait_wake_all(h)
WaitPark == \E h \in Handles : wait_park(h)
WaitSpurious == \E h \in Handles : wait_spurious_wakeup(h)
WaitLoad == \E h \in Handles : wait_live_load(h)
WaitAllocDep == \E h \in Handles : wait_alloc_dep_fetch_sub(h)
WaitFree == \E h \in Handles : wait_free(h)
DropBegin == \E h \in Handles : drop_live_fetch_sub(h)
DropWake == \E h \in Handles : drop_wake_all(h)
DropAllocDep == \E h \in Handles : drop_alloc_dep_fetch_sub(h)
DropFree == \E h \in Handles : drop_free(h)
FmtLive == \E h \in Handles : fmt_live_load(h)
FmtAllocDep == \E h \in Handles : fmt_alloc_dep_load(h)

Next ==
    \/ Clone
    \/ CloneLive
    \/ WaitBegin
    \/ WaitWake
    \/ WaitPark
    \/ WaitSpurious
    \/ WaitLoad
    \/ WaitAllocDep
    \/ WaitFree
    \/ DropBegin
    \/ DropWake
    \/ DropAllocDep
    \/ DropFree
    \/ FmtLive
    \/ FmtAllocDep

Spec == Init /\ [][Next]_vars

(* Groups near the capacity of the counters as well. *)
CapSpec == CapInit /\ [][Next]_vars

(***************************************************************************)
(* Fair scheduling: a thread that can take its next step takes it, and     *)
(* every owner of a handle ends up calling wait or dropping it.  A         *)
(* spurious return of atomic_wait::wait is never promised.                 *)
(***************************************************************************)
DropStep(h) ==
    \/ drop_wake_all(h)
    \/ drop_alloc_dep_fetch_sub(h)
    \/ drop_free(h)

WaitStep(h) ==
    \/ wait_wake_all(h)
    \/ wait_park(h)
    \/ wait_live_load(h)
    \/ wait_alloc_dep_fetch_sub(h)
    \/ wait_free(h)

Retire(h) == wait_live_fetch_sub(h) \/ drop_live_fetch_sub(h)

FairSpec ==
    /\ Spec
    /\ \A h \in Handles :
        /\ WF_vars(clone_live(h))
        /\ WF_vars(fmt_alloc_dep_load(h))
        /\ WF_vars(Retire(h))
        /\ WF_vars(WaitStep(h))
        /\ WF_vars(DropStep(h))

(* Only the threads inside drop are scheduled fairly: the other handles *)
(* may never retire and waiters may never run.                          *)
DropFairSpec == Spec /\ \A h \in Handles : WF_vars(DropStep(h))

Retired(h) == pc[h] \in {"w_done", "d_done"}
AllRetired == \A h \in Handles : pc[h] = "none" \/ Retired(h)

(***************************************************************************)
(* Properties.                                                             *)
(***************************************************************************)

(* C1 - No missed wakeup: when every handle ends up in wait or dropped and *)
(* scheduling is fair, every call of wait returns; no waiter stays parked  *)
(* on live forever, whatever clones ran while it was parked.               *)
NoMissedWakeup ==
    \A h \in Handles : (pc[h] \in WaitPcs) ~> (pc[h] = "w_done")

(* A waiter that went through the park loop has returned, released by a *)
(* dropped handle that was the last live one.                           *)
NoMissedWakeupWitness ==
    \E h, g \in Handles :
        /\ pc[h] = "w_done" /\ h \notin zeroBy
        /\ pc[g] = "d_done" /\ zeroBy = {g} /\ wakers = <<g>>

(* C2 - wait neither decrements alloc_dep nor returns while live > 0: a   *)
(* thread past wait's loop (at the alloc_dep decrement, at the free, or   *)
(* returned) sees live = 0, also after spurious returns of the park.      *)
WaitReturnsAtZero ==
    \A h \in Handles : pc[h] \in {"w_dep", "w_free", "w_done"} => live = U32Zero

(* A wait whose own decrement left live above 0 has returned. *)
WaitReturnsAtZeroWitness ==
    \E h \in Handles : pc[h] = "w_done" /\ h \notin zeroBy /\ live = U32Zero

(* C3 - Single deallocation: the allocation is freed at most once, and    *)
(* only by the one retirement whose decrement took alloc_dep from 1 to 0. *)
SingleDeallocation ==
    /\ Len(freed) <= 1
    /\ \A h \in Handles :
        pc[h] \in {"w_free", "d_free"} =>
            /\ freed = <<>>
            /\ alloc_dep = U32Zero
            /\ \A g \in Handles : pc[g] \in {"w_free", "d_free"} => g = h

(* Every handle slot was used and has retired; the allocation was freed once. *)
SingleDeallocationWitness ==
    /\ \A h \in Handles : Retired(h)
    /\ Len(freed) = 1

(* C4 - No use-after-free: the allocation is valid while alloc_dep > 0,   *)
(* no step of clone, wait or drop touches it after the free, and no       *)
(* handle and no running operation is left once it is freed.              *)
NoUseAfterFree ==
    /\ ~uaf
    /\ U32Lt(U32Zero, alloc_dep) => Allocated
    /\ ~Allocated => \A h \in Handles : pc[h] \in {"none", "c_panicked", "w_done", "d_done"}

(* The free happened while a waiter had been inside the park loop. *)
NoUseAfterFreeWitness ==
    /\ ~Allocated
    /\ \E h \in Handles : pc[h] = "w_done" /\ h \notin zeroBy /\ freed = <<h>>

(* C5 - No leak: when every handle retires, the allocation ends up freed; *)
(* once all retirements are complete alloc_dep is 0 and the free is done. *)
NoLeak ==
    /\ <>AllRetired
    /\ [](AllRetired => (alloc_dep = U32Zero /\ Len(freed) = 1))

(* All handles retired, some by wait and some by drop, and the state is freed. *)
NoLeakWitness ==
    /\ AllRetired
    /\ \E h, g \in Handles : pc[h] = "w_done" /\ pc[g] = "d_done"
    /\ alloc_dep = U32Zero
    /\ ~Allocated

(* C6 - Invariant I1: between creation and deallocation alloc_dep >= live *)
(* in every state, whatever the interleaving of the atomic steps of       *)
(* concurrent clone, wait and drop calls.                                 *)
PendingGeLive == Allocated => U32Le(live, alloc_dep)

(* A clone stands between its two increments while a retirement stands *)
(* between its two decrements.                                         *)
PendingGeLiveWitness ==
    \E n, h \in Handles :
        /\ pc[n] = "c_live"
        /\ pc[h] \in {"w_park", "w_parked", "w_load", "d_dep"}
        /\ U32Lt(live, alloc_dep)

(* C7 - Invariant I3: live reaches 0 once and for all: no step changes    *)
(* live once it is 0, exactly one retirement's decrement produced the 0,  *)
(* and at live = 0 no handle is left to clone from and no clone is about  *)
(* to increment live.                                                     *)
LiveZeroOnce ==
    /\ [][live = U32Zero => live' = U32Zero]_vars
    /\ [](Cardinality(zeroBy) <= 1)
    /\ [](live = U32Zero <=> zeroBy # {})
    /\ [](live = U32Zero => \A h \in Handles : pc[h] \notin {"held", "c_live"})

(* live is 0 by one handle's decrement while a waiter is still parked. *)
LiveZeroOnceWitness ==
    \E h, g \in Handles :
        /\ live = U32Zero
        /\ zeroBy = {h}
        /\ pc[g] = "w_parked"

(* C8 - Asymmetric retirement: a drop never blocks: each of its steps can *)
(* be taken at once, and it completes when only the dropping thread is    *)
(* scheduled, whatever the other handles do; it decrements live, and      *)
(* when it was the last live handle its wake leaves no thread parked.     *)
AsymmetricRetirement ==
    /\ \A h \in Handles : (pc[h] \in DropPcs) ~> (pc[h] = "d_done")
    /\ [](\A h \in Handles : pc[h] \in DropPcs => ENABLED DropStep(h))
    /\ [][\A h \in Handles :
            (pc[h] = "held" /\ pc'[h] \in DropPcs) =>
                /\ live' = WrappingSub1(live)
                /\ (pc'[h] = "d_wake") = (live' = U32Zero)]_vars
    /\ [][\A h \in Handles :
            (pc[h] = "d_wake" /\ pc'[h] = "d_dep") =>
                \A g \in Handles : pc'[g] # "w_parked"]_vars

(* A dropped handle was the last live one and its wake has just *)
(* released two waiters.                                        *)
AsymmetricRetirementWitness ==
    \E h, g1, g2 \in Handles :
        /\ g1 # g2
        /\ pc[h] = "d_dep" /\ wakers = <<h>> /\ zeroBy = {h}
        /\ pc[g1] = "w_load" /\ l[g1] # U32Zero
        /\ pc[g2] = "w_load" /\ l[g2] # U32Zero

(* C9 - Capacity boundary: a clone fails exactly when alloc_dep is        *)
(* u32::MAX at its checked increment; otherwise it succeeds and alloc_dep *)
(* grows by one (at u32::MAX - 1 it reaches the maximum); alloc_dep       *)
(* neither wraps nor is left unchanged by a clone that succeeds.          *)
CapacityBoundary ==
    [][\A n \in Handles :
        (pc[n] = "none" /\ pc'[n] # "none") =>
            IF alloc_dep = U32Max
            THEN pc'[n] = "c_panicked" /\ alloc_dep' = alloc_dep
            ELSE /\ pc'[n] = "c_live"
                 /\ alloc_dep' = WrappingAdd1(alloc_dep)
                 /\ U32Lt(alloc_dep, alloc_dep')]_vars

(* A clone at u32::MAX - 1 succeeded, alloc_dep is u32::MAX and the next *)
(* clone failed.                                                         *)
CapacityBoundaryWitness ==
    /\ others = U32SubN(U32Max, 2)
    /\ pc[2] \in {"c_live", "held"}
    /\ pc[3] = "c_panicked"
    /\ alloc_dep = U32Max

PastLoop(h) == pc[h] \in {"w_dep", "w_free", "w_done"}

(* C11 (as stated) - Event ordering: the decrement of live to 0 precedes  *)
(* the wake broadcast, the wake broadcast precedes every waiter's         *)
(* observation that live = 0, and that observation precedes the waiter's  *)
(* own decrement of alloc_dep.                                            *)
EventOrderingAsStated ==
    /\ wakers # <<>> => (live = U32Zero /\ zeroBy # {})
    /\ \A h \in Handles : (PastLoop(h) /\ h \notin zeroBy) => wakers # <<>>
    /\ \A h \in Handles : PastLoop(h) => l[h] = U32Zero

(* C11 (amended) - Event ordering: the decrement of live to 0 precedes    *)
(* the wake broadcast and every waiter's observation that live = 0, and   *)
(* each waiter's observation precedes its own decrement of alloc_dep; the *)
(* wake broadcast itself need not precede an observation.                 *)
EventOrdering ==
    /\ wakers # <<>> => (live = U32Zero /\ zeroBy # {} /\ wakers[1] \in zeroBy)
    /\ \A h \in Handles :
        PastLoop(h) => (l[h] = U32Zero /\ live = U32Zero /\ zeroBy # {})

(* A waiter has read live = 0 while the handle that took live to 0 has *)
(* not called wake_all yet.                                            *)
EventOrderingWitness ==
    \E h, g \in Handles :
        /\ pc[h] = "w_dep" /\ h \notin zeroBy /\ l[h] = U32Zero
        /\ pc[g] \in {"w_wake", "d_wake"} /\ zeroBy = {g}
        /\ wakers = <<>>

(* The handle is at its Box::from_raw, or has run it. *)
Frees(h) == pc[h] \in {"w_free", "d_free"} \/ freed = <<h>>

(* C13 (as stated) - The retirement whose decrement takes live to 0 and   *)
(* that broadcasts the wake is the one that frees the allocation.         *)
FreedByLastLiveAsStated ==
    \A h \in Handles : Frees(h) => (h \in zeroBy /\ wakers = <<h>>)

(* C13 (amended) - The allocation is freed by the retirement whose        *)
(* decrement takes alloc_dep to 0, the last one to complete: every other  *)
(* handle has returned, live is 0 and the one wake was broadcast by the   *)
(* handle that took live to 0, which need not be the one that frees.      *)
FreedByLastToComplete ==
    \A h \in Handles :
        Frees(h) =>
            /\ alloc_dep = U32Zero
            /\ live = U32Zero
            /\ \A g \in Handles \ {h} : pc[g] \in {"none", "w_done", "d_done"}
            /\ Len(wakers) = 1
            /\ wakers[1] \in zeroBy

(* A woken waiter freed the allocation; a dropped handle had taken live *)
(* to 0 and broadcast the wake.                                         *)
FreedByLastToCompleteWitness ==
    \E h, g \in Handles :
        /\ freed = <<h>> /\ pc[h] = "w_done" /\ h \notin zeroBy
        /\ pc[g] = "d_done" /\ zeroBy = {g} /\ wakers = <<g>>

(* C14 - Exactly one wake broadcast per group: it is issued by the        *)
(* retirement whose decrement took live to 0, after that decrement and    *)
(* before that retirement's decrement of alloc_dep; a retirement that     *)
(* left live above 0 issues none, and a wait whose own decrement yields 0 *)
(* never parks.                                                           *)
OneWakeBroadcast ==
    /\ Len(wakers) <= 1
    /\ wakers # <<>> => wakers[1] \in zeroBy
    /\ \A h \in Handles :
        pc[h] \in {"w_wake", "d_wake"} =>
            (h \in zeroBy /\ wakers = <<>> /\ live = U32Zero)
    /\ \A h \in zeroBy :
        /\ pc[h] \in {"w_wake", "d_wake", "w_dep", "d_dep", "w_free", "d_free",
                      "w_done", "d_done"}
        /\ pc[h] \notin {"w_wake", "d_wake"} => wakers = <<h>>
    /\ AllRetired => Len(wakers) = 1

(* The wait that took live to 0 has broadcast the one wake and stands  *)
(* before its decrement of alloc_dep; an earlier drop returned without *)
(* a wake.                                                             *)
OneWakeBroadcastWitness ==
    \E h, g \in Handles :
        /\ pc[h] = "w_dep" /\ zeroBy = {h} /\ wakers = <<h>>
        /\ pc[g] = "d_done" /\ g \notin zeroBy

(* Handle h, inside a drop whose decrement left live above 0, takes a step. *)
NotLastDropStep(h) == pc[h] \in DropPcs /\ h \notin zeroBy /\ pc'[h] # pc[h]

(* C16 (as stated) - A drop whose decrement leaves live above 0 is done:  *)
(* it issues no wake and performs no further update of the allocation.    *)
AbandonDoneAtOnceAsStated ==
    [][\A h \in Handles :
        NotLastDropStep(h) => UNCHANGED <<live, alloc_dep, freed, wakers>>]_vars

(* C16 (amended) - A drop whose decrement leaves live above 0 issues no   *)
(* wake and leaves live alone, but it still decrements alloc_dep, and     *)
(* frees the allocation when that decrement reaches 0.                    *)
AbandonNoWake ==
    /\ [](\A h \in Handles : pc[h] = "d_wake" => h \in zeroBy)
    /\ [][\A h \in Handles :
            NotLastDropStep(h) =>
                /\ wakers' = wakers
                /\ live' = live
                /\ \/ /\ pc[h] = "d_dep"
                      /\ alloc_dep' = WrappingSub1(alloc_dep)
                      /\ freed' = freed
                   \/ /\ pc[h] = "d_free"
                      /\ alloc_dep' = alloc_dep
                      /\ freed' = <<h>>]_vars

(* A drop that left live above 0 has returned, no wake was issued, and *)
(* its decrement of alloc_dep is done: the counters are equal again.   *)
AbandonNoWakeWitness ==
    \E h, g \in Handles :
        /\ pc[h] = "d_done" /\ h \notin zeroBy
        /\ pc[g] = "held"
        /\ wakers = <<>>
        /\ U32Lt(U32Zero, live)
        /\ alloc_dep = live

(* C17 - clone increments alloc_dep first and live second; when a clone   *)
(* performs its live increment live is strictly below alloc_dep, so the   *)
(* unchecked fetch_add never wraps live, also with alloc_dep at u32::MAX  *)
(* and clones and retirements interleaved.                                *)
CloneLiveNoOverflow ==
    /\ [](\A n \in Handles : pc[n] = "c_live" => U32Lt(live, alloc_dep))
    /\ [][\A n \in Handles :
            (pc[n] = "none" /\ pc'[n] = "c_live") =>
                (live' = live /\ alloc_dep' = WrappingAdd1(alloc_dep))]_vars
    /\ [][\A n \in Handles :
            (pc[n] = "c_live" /\ pc'[n] = "held") =>
                /\ alloc_dep' = alloc_dep
                /\ live' = WrappingAdd1(live)
                /\ U32Lt(live, live')]_vars

(* A clone has taken alloc_dep and then live to u32::MAX while another *)
(* handle of the group is inside its retirement.                       *)
CloneLiveNoOverflowWitness ==
    \E n, h \in Handles :
        /\ pc[n] = "held" /\ n # 1
        /\ alloc_dep = U32Max
        /\ live = U32SubN(U32Max, 1)
        /\ pc[h] \in {"w_park", "w_parked", "w_load", "d_dep"}

RECURSIVE U32AddN(_, _)
U32AddN(a, k) == IF k = 0 THEN a ELSE U32AddN(WrappingAdd1(a), k - 1)

(* Operations between their two counter updates: clones past the         *)
(* alloc_dep increment, retirements past the live decrement.             *)
InFlight ==
    {h \in Handles : pc[h] \in {"c_live", "w_wake", "w_park", "w_parked",
                                "w_load", "w_dep", "d_wake", "d_dep"}}

(* Handles that exist and have not begun retirement. *)
NotRetiring == {h \in Handles : pc[h] = "held"}

(* C18 - Before deallocation alloc_dep - live is the number of operations *)
(* in flight (clones between their increments plus retirements between    *)
(* their decrements), and live is the number of existing handles that     *)
(* have not begun retirement, a handle whose clone has not yet            *)
(* incremented live not counted.                                          *)
CountersAccount ==
    Allocated =>
        /\ U32Le(live, alloc_dep)
        /\ alloc_dep = U32AddN(live, Cardinality(InFlight))
        /\ U32Le(others, live)
        /\ live = U32AddN(others, Cardinality(NotRetiring))

(* One handle is held, a clone of it stands between its increments and *)
(* a waiter is parked: live = 1 and alloc_dep = 3.                     *)
CountersAccountWitness ==
    \E n, h \in Handles :
        /\ pc[n] = "c_live"
        /\ pc[h] = "w_parked"
        /\ live = U32(1)
        /\ alloc_dep = U32(3)

(* C19 - Neither counter underflows: every fetch_sub on live and on      *)
(* alloc_dep, in wait and in drop, is applied to a value >= 1; no        *)
(* decrement wraps a counter from 0 to 2^32 - 1.                         *)
NoUnderflow ==
    /\ [][live' = WrappingSub1(live) => live # U32Zero]_vars
    /\ [][alloc_dep' = WrappingSub1(alloc_dep) => alloc_dep # U32Zero]_vars
    /\ [](\A h \in Handles :
            /\ pc[h] = "held" => U32Le(U32(1), live)
            /\ pc[h] \in {"w_dep", "d_dep"} => U32Le(U32(1), alloc_dep))

(* Every handle slot was used and retired by wait; the decrements have *)
(* brought both counters to 0 exactly.                                 *)
NoUnderflowWitness ==
    /\ \A h \in Handles : pc[h] = "w_done"
    /\ live = U32Zero
    /\ alloc_dep = U32Zero

(* C20 - A thread in wait parks only against an expected value l > 0 that *)
(* it read from live, and the park takes effect only if live still equals *)
(* l: no thread begins to park once live = 0, and once the wake broadcast *)
(* is done no thread is parked on live.                                   *)
ParkDiscipline ==
    /\ [](\A h \in Handles :
            pc[h] \in {"w_park", "w_parked"} => U32Lt(U32Zero, l[h]))
    /\ [][\A h \in Handles : l'[h] # l[h] => l'[h] = live']_vars
    /\ [][\A h \in Handles :
            (pc[h] = "w_park" /\ pc'[h] # pc[h]) =>
                IF live = l[h]
                THEN pc'[h] = "w_parked" /\ live # U32Zero
                ELSE pc'[h] = "w_load"]_vars
    /\ [](wakers # <<>> => \A h \in Handles : pc[h] # "w_parked")

(* After the wake broadcast a thread still stands before its call of   *)
(* atomic_wait::wait, with an expected value that live no longer has.  *)
ParkDisciplineWitness ==
    \E h \in Handles :
        /\ pc[h] = "w_park"
        /\ U32Lt(U32Zero, l[h])
        /\ live = U32Zero
        /\ wakers # <<>>

(* C15 - Each handle retires by exactly one of the two paths and makes    *)
(* exactly one decrement of live followed by exactly one decrement of     *)
(* alloc_dep: wait's forget keeps the destructor from retiring it again,  *)
(* and a drop decrements alloc_dep whether or not its decrement of live   *)
(* reached 0.                                                             *)
RetiresOnce ==
    /\ [](\A h \in Handles :
            /\ decs[h][1] <= 1
            /\ decs[h][2] <= decs[h][1]
            /\ pc[h] \in {"none", "c_live", "held"} => decs[h] = <<0, 0>>
            /\ pc[h] \in WaitPcs \cup DropPcs => decs[h][1] = 1
            /\ Retired(h) => decs[h] = <<1, 1>>)
    /\ [][\A h \in Handles :
            /\ pc[h] \in WaitPcs => pc'[h] \in WaitPcs \cup {"w_done"}
            /\ pc[h] \in DropPcs => pc'[h] \in DropPcs \cup {"d_done"}
            /\ Retired(h) => pc'[h] = pc[h]]_vars

(* A handle has returned from wait and another was dropped while live *)
(* stayed above 0; each made its two decrements.                      *)
RetiresOnceWitness ==
    \E h, g \in Handles :
        /\ pc[h] = "w_done" /\ decs[h] = <<1, 1>>
        /\ pc[g] = "d_done" /\ decs[g] = <<1, 1>> /\ g \notin zeroBy

(* C12 - Debug::fmt reads live and then alloc_dep in two separate loads;  *)
(* with retirements of other handles between the loads the reported pair  *)
(* can have alloc_dep < live, while the counters themselves satisfy       *)
(* alloc_dep >= live at the instant of each load.                         *)
SnapshotTorn ==
    /\ [](dbg.at = "live_read" => pc[dbg.h] = "held")
    /\ [][(dbg.at # "live_read" /\ dbg'.at = "live_read") =>
            /\ dbg'.live = live
            /\ U32Le(live, alloc_dep)
            /\ UNCHANGED <<live, alloc_dep>>]_vars
    /\ [][(dbg.at = "live_read" /\ dbg'.at = "reported") =>
            /\ dbg'.live = dbg.live
            /\ dbg'.alloc_dep = alloc_dep
            /\ U32Le(live, alloc_dep)
            /\ UNCHANGED <<live, alloc_dep>>
            /\ U32Lt(dbg'.alloc_dep, dbg'.live) => U32Lt(live, dbg'.live)]_vars

(* A reported pair with alloc_dep < live. *)
SnapshotTornWitness ==
    /\ dbg.at = "reported"
    /\ U32Lt(dbg.alloc_dep, dbg.live)

====
